---------------------------- MODULE Spec2Model ----------------------------
(***************************************************************************)
(* Game Boy emulator core (mp3259/Gameboy-Emulator): memory map, CPU       *)
(* opcode interpreter, timer unit, LCD status unit, interrupt dispatcher   *)
(* and the frame loop of Emulator::run, as a state machine.                *)
(*                                                                         *)
(* The program state is held in four records:                              *)
(*   cpu    - the register file, num_cycles and interrupt_master_enable    *)
(*   memory - the vectors of Memory (CART_ROM, VRAM, ERAM, WRAM, OAM, ZRAM)*)
(*   emu    - the counters owned by Emulator                               *)
(*   run    - the locals of Emulator::run (i, current_cycle)               *)
(* A vector is kept as a function on the indices that hold a non-zero      *)
(* byte; every other index reads 0, as vector<Byte>(n) zero-fills.         *)
(* Operations are operators on a machine record [cpu, memory, emu, ev]     *)
(* where ev logs what the operation did (ticks, interrupt requests,        *)
(* serviced interrupts, scanline draws).                                   *)
(***************************************************************************)
EXTENDS Integers, Sequences, FiniteSets, TLC

VARIABLES cpu, memory, emu, run, last, obs

vars == <<cpu, memory, emu, run, last, obs>>

---------------------------------------------------------------------------
(* Fixed-width arithmetic and bit helpers                                  *)

Byte(x) == x % 256

Byte_2(x) == x % 65536

Bit(x, b) == (x \div (2 ^ b)) % 2

is_bit_set(x, b) == Bit(x, b) = 1

set_bit(x, b) == IF is_bit_set(x, b) THEN x ELSE x + 2 ^ b

clear_bit(x, b) == IF is_bit_set(x, b) THEN x - 2 ^ b ELSE x

RECURSIVE AndBits(_, _, _)
AndBits(x, y, b) ==
    IF b < 0 THEN 0
    ELSE Bit(x, b) * Bit(y, b) * (2 ^ b) + AndBits(x, y, b - 1)

\* x & y on byte operands
BitAnd(x, y) == AndBits(x, y, 7)

\* x | y and x ^ y on byte operands
BitOr(x, y) == x + y - BitAnd(x, y)

BitXor(x, y) == x + y - 2 * BitAnd(x, y)

high_byte(w) == (w \div 256) % 256

low_byte(w) == w % 256

---------------------------------------------------------------------------
(* Memory                                                                  *)

\* vec[idx] of a zero-filled vector kept sparsely
Get(vec, idx) == IF idx \in DOMAIN vec THEN vec[idx] ELSE 0

\* vec[idx] = data
Put(vec, idx, data) ==
    IF data = 0
    THEN [k \in DOMAIN vec \ {idx} |-> vec[k]]
    ELSE [k \in DOMAIN vec \cup {idx} |-> IF k = idx THEN data ELSE vec[k]]

EmptyVec == [k \in {} |-> 0]

\* ZRAM offsets of the memory-mapped registers
DIV_REG == 4

TIMA_REG == 5

TMA_REG == 6

TAC_REG == 7

IF_REG == 15

LCDC_REG == 64

STAT_REG == 65

LY_REG == 68

LYC_REG == 69

BGP_REG == 71

ZBP0_REG == 72

ZBP1_REG == 73

IE_REG == 255

\* MemoryRegister::get / MemoryRegister::set on a register bound to ZRAM[off]
RegGet(mem, off) == Get(mem.ZRAM, off)

RegSet(mem, off, data) == [mem EXCEPT !.ZRAM = Put(@, off, Byte(data))]

\* Memory::Memory, with the cartridge image rom already loaded
MemoryInit(rom) ==
    [CART_ROM |-> rom,
     VRAM |-> EmptyVec, ERAM |-> EmptyVec, WRAM |-> EmptyVec, OAM |-> EmptyVec,
     ZRAM |-> (LCDC_REG :> 145) @@ (BGP_REG :> 252)
              @@ (ZBP0_REG :> 255) @@ (ZBP1_REG :> 255)]

\* Memory::read
MemRead(mem, location) ==
    LET top == location \div 4096
        sub == (location \div 256) % 16
    IN  CASE top \in 0..7 -> Get(mem.CART_ROM, location)
          [] top \in 8..9 -> Get(mem.VRAM, location % 8192)
          [] top \in 10..11 -> Get(mem.ERAM, location % 8192)
          [] top \in 12..14 -> Get(mem.WRAM, location % 8192)
          [] OTHER ->
              IF sub <= 13 THEN Get(mem.WRAM, location % 8192)
              ELSE IF sub = 14
                   THEN (IF location < 65184 THEN Get(mem.OAM, location % 256)
                         ELSE 0)
                   ELSE Get(mem.ZRAM, location % 256)

\* Memory::write storing to WRAM only through 0xC000..0xDFFF and dropping every
\* other write
MemWrite_no_shadow(mem, location, data) ==
    IF location \in 49152..57343
    THEN [mem EXCEPT !.WRAM = Put(@, location % 8192, data)]
    ELSE mem

\* Memory::write storing to the cartridge image and dropping every other write
MemWrite_rom(mem, location, data) ==
    IF location < 32768
    THEN [mem EXCEPT !.CART_ROM = Put(@, location, data)]
    ELSE mem

\* Memory::write
MemWrite(mem, location, data) ==
    LET top == location \div 4096
        sub == (location \div 256) % 16
    IN  CASE top \in 0..7 -> mem
          [] top \in 8..9 -> [mem EXCEPT !.VRAM = Put(@, location % 8192, data)]
          [] top \in 10..11 -> [mem EXCEPT !.ERAM = Put(@, location % 8192, data)]
          [] top \in 12..14 -> [mem EXCEPT !.WRAM = Put(@, location % 8192, data)]
          [] OTHER ->
              IF sub <= 13
              THEN [mem EXCEPT !.WRAM = Put(@, location % 8192, data)]
              ELSE IF sub = 14
                   THEN (IF location < 65184
                         THEN [mem EXCEPT !.OAM = Put(@, location % 256, data)]
                         ELSE mem)
                   ELSE [mem EXCEPT !.ZRAM = Put(@, location % 256, data)]

---------------------------------------------------------------------------
(* Event log of one operation                                              *)

NoEvents ==
    [ticks |-> 0, requested |-> <<>>, serviced |-> <<>>, draws |-> <<>>, opbytes |-> 0,
     lcdc |-> <<>>]

Machine == [cpu |-> cpu, memory |-> memory, emu |-> emu, ev |-> NoEvents]

---------------------------------------------------------------------------
(* Timer unit                                                              *)

INTERRUPT_VBLANK == 0

INTERRUPT_LCDC == 1

INTERRUPT_TIMER == 2

INTERRUPT_JOYPAD == 4

\* Emulator::request_interrupt
request_interrupt(m, id) ==
    [m EXCEPT !.memory = RegSet(@, IF_REG, set_bit(RegGet(m.memory, IF_REG), id)),
              !.ev.requested = Append(@, id)]

\* Emulator::update_divider
update_divider(m, cycles) ==
    LET counter == m.emu.divider_counter + cycles
    IN  IF counter >= 256
        THEN [m EXCEPT !.emu.divider_counter = 0,
                       !.memory = RegSet(@, DIV_REG, RegGet(m.memory, DIV_REG) + 1)]
        ELSE [m EXCEPT !.emu.divider_counter = counter]

\* timer_enabled testing bit 0 of TAC in place of bit 2
timer_enabled_bit0(m) == is_bit_set(RegGet(m.memory, TAC_REG), 0)

\* Emulator::timer_enabled
timer_enabled(m) == is_bit_set(RegGet(m.memory, TAC_REG), 2)

\* Emulator::get_timer_frequency
get_timer_frequency(m) == BitAnd(RegGet(m.memory, TAC_REG), 3)

\* The switch of Emulator::set_timer_frequency
TimerPeriod(frequency) ==
    CASE frequency = 0 -> 1024
      [] frequency = 1 -> 16
      [] frequency = 2 -> 64
      [] frequency = 3 -> 256

\* Emulator::set_timer_frequency
set_timer_frequency(m) ==
    LET frequency == get_timer_frequency(m)
    IN  [m EXCEPT !.emu.timer_frequency = frequency,
                  !.emu.timer_counter = TimerPeriod(frequency)]

\* The if (timer_enabled()) block of Emulator::update_timers
update_tima(m, cycles) ==
    IF timer_enabled(m)
    THEN LET m1 == [m EXCEPT !.emu.timer_counter = @ - cycles]
         IN  IF m1.emu.timer_counter <= 0
             THEN LET timer_value == RegGet(m1.memory, TIMA_REG)
                      m2 == [set_timer_frequency(m1) EXCEPT !.ev.ticks = @ + 1]
                  IN  IF timer_value = 255
                      THEN request_interrupt(
                               [m2 EXCEPT !.memory =
                                   RegSet(@, TIMA_REG, RegGet(m2.memory, TMA_REG))],
                               INTERRUPT_TIMER)
                      ELSE [m2 EXCEPT !.memory = RegSet(@, TIMA_REG, timer_value + 1)]
             ELSE m1
    ELSE m

\* update_frequency that latches the new frequency and keeps the old counter
update_frequency_no_reload(m) ==
    [m EXCEPT !.emu.timer_frequency = get_timer_frequency(m)]

\* The frequency check of Emulator::update_timers
update_frequency(m) ==
    LET new_freq == get_timer_frequency(m)
    IN  IF m.emu.timer_frequency # new_freq
        THEN [set_timer_frequency(m) EXCEPT !.emu.timer_frequency = new_freq]
        ELSE m

\* Emulator::update_timers
update_timers(m, cycles) ==
    update_tima(update_frequency(update_divider(m, cycles)), cycles)

---------------------------------------------------------------------------
(* Interrupt dispatcher                                                    *)

\* The switch of Emulator::service_interrupt: the new PC for interrupt id
InterruptVector(id, pc) ==
    CASE id = INTERRUPT_VBLANK -> 64
      [] id = INTERRUPT_LCDC -> 72
      [] id = INTERRUPT_TIMER -> 80
      [] id = INTERRUPT_JOYPAD -> 96
      [] OTHER -> pc

\* Emulator::service_interrupt
service_interrupt(m, id) ==
    LET sp1 == Byte_2(m.cpu.reg_SP + 65535)
        sp2 == Byte_2(sp1 + 65535)
        pc == m.cpu.reg_PC
        mem0 == RegSet(m.memory, IF_REG, clear_bit(RegGet(m.memory, IF_REG), id))
        mem1 == MemWrite(mem0, sp1, high_byte(pc))
        mem2 == MemWrite(mem1, sp2, low_byte(pc))
    IN  [m EXCEPT !.cpu.interrupt_master_enable = FALSE,
                  !.cpu.reg_SP = sp2,
                  !.cpu.reg_PC = InterruptVector(id, pc),
                  !.memory = mem2,
                  !.ev.serviced = Append(@, id)]

\* interrupt_ready without the test of IE
interrupt_ready_no_ie(m, i) == is_bit_set(RegGet(m.memory, IF_REG), i)

\* The test the loop of Emulator::do_interrupts makes for bit i
interrupt_ready(m, i) ==
    is_bit_set(RegGet(m.memory, IF_REG), i) /\ is_bit_set(RegGet(m.memory, IE_REG), i)

\* The for loop of Emulator::do_interrupts, from bit i on
RECURSIVE interrupt_loop(_, _)
interrupt_loop(m, i) ==
    IF i >= 5 THEN m
    ELSE interrupt_loop(IF interrupt_ready(m, i) THEN service_interrupt(m, i) ELSE m,
                        i + 1)

\* Emulator::do_interrupts
do_interrupts(m) ==
    IF m.cpu.interrupt_master_enable /\ RegGet(m.memory, IF_REG) > 0
    THEN interrupt_loop(m, 0)
    ELSE m

---------------------------------------------------------------------------
(* LCD status unit                                                         *)

SCANLINE_CYCLES == 456

\* display.is_lcd_enabled
is_lcd_enabled(m) == is_bit_set(RegGet(m.memory, LCDC_REG), 7)

\* The mode set_lcd_status selects from LY and the scanline counter
lcd_mode(current_line, scanline_counter) ==
    LET mode2_threshold == SCANLINE_CYCLES - 80
        mode3_threshold == mode2_threshold - 172
    IN  IF current_line >= 144 THEN 1
        ELSE IF scanline_counter >= mode2_threshold THEN 2
        ELSE IF scanline_counter >= mode3_threshold THEN 3
        ELSE 0

\* do_interrupt of set_lcd_status with mode 3 reading STAT bit 5 like mode 2
mode_interrupt_mode3(status, mode) ==
    CASE mode = 1 -> is_bit_set(status, 4)
      [] mode = 2 -> is_bit_set(status, 5)
      [] mode = 3 -> is_bit_set(status, 5)
      [] mode = 0 -> is_bit_set(status, 3)

\* do_interrupt of set_lcd_status: the source bit of the mode, none for mode 3
mode_interrupt(status, mode) ==
    CASE mode = 1 -> is_bit_set(status, 4)
      [] mode = 2 -> is_bit_set(status, 5)
      [] mode = 3 -> FALSE
      [] mode = 0 -> is_bit_set(status, 3)

\* The disabled branch of set_lcd_status leaving the mode bits 00
lcd_off_status_mode0(status) == BitAnd(status, 252)

\* STAT as the disabled branch of set_lcd_status leaves it: mode bits 01
lcd_off_status(status) == set_bit(BitAnd(status, 252), 0)

\* Emulator::set_lcd_status; ev.lcdc records which part asked for the LCDC interrupt
set_lcd_status(m) ==
    LET status == RegGet(m.memory, STAT_REG)
    IN  IF ~is_lcd_enabled(m)
        THEN [m EXCEPT !.emu.scanline_counter = SCANLINE_CYCLES,
                       !.memory = RegSet(RegSet(m.memory, LY_REG, 0), STAT_REG,
                                         lcd_off_status(status))]
        ELSE
          LET current_line == RegGet(m.memory, LY_REG)
              current_mode == BitAnd(status, 3)
              mode == lcd_mode(current_line, m.emu.scanline_counter)
              status1 == BitAnd(status, 252) + mode
              do_interrupt == mode_interrupt(status1, mode)
              m1 == IF do_interrupt /\ mode # current_mode
                    THEN [request_interrupt(m, INTERRUPT_LCDC) EXCEPT
                            !.ev.lcdc = Append(@, "mode")]
                    ELSE m
              coincidence == RegGet(m1.memory, LY_REG) = RegGet(m1.memory, LYC_REG)
              status2 == IF coincidence THEN set_bit(status1, 2)
                         ELSE clear_bit(status1, 2)
              m2 == IF coincidence /\ is_bit_set(status2, 6)
                    THEN [request_interrupt(m1, INTERRUPT_LCDC) EXCEPT
                            !.ev.lcdc = Append(@, "coincidence")]
                    ELSE m1
          IN  [m2 EXCEPT !.memory = RegSet(@, STAT_REG, status2)]

\* The test of update_scanline passing only a counter below zero
scanline_elapsed_negative(scanline_counter) == scanline_counter < 0

\* The test of update_scanline that ends a scanline
scanline_elapsed(scanline_counter) == scanline_counter <= 0

\* Emulator::update_scanline
update_scanline(m, cycles) ==
    LET m1 == set_lcd_status(m)
    IN  IF ~is_lcd_enabled(m1) THEN m1
        ELSE
          LET m2 == [m1 EXCEPT !.emu.scanline_counter = @ - cycles]
          IN  IF scanline_elapsed(m2.emu.scanline_counter)
              THEN LET current_scanline == RegGet(m2.memory, LY_REG)
                       m3 == [m2 EXCEPT
                                !.memory = RegSet(@, LY_REG, current_scanline + 1),
                                !.emu.scanline_counter = SCANLINE_CYCLES]
                   IN  IF current_scanline = 144
                       THEN request_interrupt(m3, 0)
                       ELSE IF current_scanline > 153
                       THEN [m3 EXCEPT !.memory = RegSet(@, LY_REG, 0)]
                       ELSE IF current_scanline < 144
                       THEN [m3 EXCEPT !.ev.draws =
                                Append(@, RegGet(m3.memory, LY_REG))]
                       ELSE m3
              ELSE m2

---------------------------------------------------------------------------
(* CPU core                                                                *)

FLAG_ZERO == 128

FLAG_SUB == 64

FLAG_HALF_CARRY == 32

FLAG_CARRY == 16

\* CPU::init
CpuInit(cycles, ime) ==
    [reg_A |-> 0, reg_B |-> 0, reg_C |-> 0, reg_D |-> 0, reg_E |-> 0, reg_F |-> 0,
     reg_H |-> 0, reg_L |-> 0, reg_SP |-> 65534, reg_PC |-> 0,
     num_cycles |-> cycles, interrupt_master_enable |-> ime]

\* CPU::address
address(high, low) == high * 256 + low

\* CPU::high_reg_pair / CPU::low_reg_pair
high_reg_pair(reg_pair) == (reg_pair \div 256) % 256

low_reg_pair(reg_pair) == reg_pair % 256

\* CPU::set_flag, on the value f of reg_F
set_flag(f, flag, value) ==
    IF value THEN BitOr(f, flag) ELSE BitAnd(f, 255 - flag)

\* The register an opcode's three-bit field names; 6 is the (HL) form
RegName(r) ==
    CASE r = 0 -> "reg_B" [] r = 1 -> "reg_C" [] r = 2 -> "reg_D"
      [] r = 3 -> "reg_E" [] r = 4 -> "reg_H" [] r = 5 -> "reg_L"
      [] r = 7 -> "reg_A"

\* CPU::dec_reg_pair / CPU::inc_reg_pair on the pair (hi, lo) of cpu c
dec_reg_pair(c, hi, lo) ==
    LET addr == Byte_2(address(c[hi], c[lo]) + 65535)
    IN  [c EXCEPT ![hi] = high_reg_pair(addr), ![lo] = low_reg_pair(addr)]

inc_reg_pair(c, hi, lo) ==
    LET addr == Byte_2(address(c[hi], c[lo]) + 1)
    IN  [c EXCEPT ![hi] = high_byte(addr), ![lo] = low_byte(addr)]

\* CPU::PUSH
PUSH(m, high, low) ==
    LET sp1 == Byte_2(m.cpu.reg_SP + 65535)
        sp2 == Byte_2(sp1 + 65535)
    IN  [m EXCEPT !.memory = MemWrite(MemWrite(m.memory, sp1, high), sp2, low),
                  !.cpu.reg_SP = sp2]

\* CPU::POP into the registers named hi and lo
POP(m, hi, lo) ==
    LET sp == m.cpu.reg_SP
        sp1 == Byte_2(sp + 1)
    IN  [m EXCEPT !.cpu = [@ EXCEPT ![lo] = MemRead(m.memory, sp),
                                    ![hi] = MemRead(m.memory, sp1),
                                    !.reg_SP = Byte_2(sp1 + 1)]]

\* The ALU operations below take the target byte t, the operand v and reg_F,
\* and give the new target and the new reg_F.

\* CPU::ADD
ADD(t, v, f) ==
    LET result == t + v
        f1 == set_flag(f, FLAG_ZERO, result = 0)
        f2 == set_flag(f1, FLAG_SUB, FALSE)
        f3 == set_flag(f2, FLAG_HALF_CARRY, BitAnd((t % 16) + (v % 16), 16) # 0)
        f4 == set_flag(f3, FLAG_CARRY, result > 255)
    IN  [t |-> Byte(t + v), f |-> f4]

\* CPU::ADDC
ADDC(t, v, f) ==
    LET carry == IF BitAnd(f, FLAG_CARRY) # 0 THEN 1 ELSE 0
        r == ADD(t, v, f)
    IN  [r EXCEPT !.t = Byte(@ + carry)]

\* CPU::SUB
SUB(t, v, f) ==
    LET result == t - v
        f1 == set_flag(f, FLAG_ZERO, result = 0)
        f2 == set_flag(f1, FLAG_SUB, TRUE)
        f3 == set_flag(f2, FLAG_HALF_CARRY, (t % 16) - (v % 16) < 0)
        f4 == set_flag(f3, FLAG_CARRY, result < 0)
    IN  [t |-> Byte(t - v + 256), f |-> f4]

\* CPU::SUBC
SUBC(t, v, f) ==
    LET carry == IF BitAnd(f, FLAG_CARRY) # 0 THEN 1 ELSE 0
        r == SUB(t, v, f)
    IN  [r EXCEPT !.t = Byte(@ - carry + 256)]

\* The flag updates shared by CPU::AND, CPU::OR and CPU::XOR
LogicFlags(target, f, half) ==
    set_flag(set_flag(set_flag(set_flag(f, FLAG_ZERO, target = 0),
                               FLAG_SUB, FALSE),
                      FLAG_HALF_CARRY, half),
             FLAG_CARRY, FALSE)

\* CPU::AND
AND(t, v, f) ==
    LET target == BitAnd(t, v) IN [t |-> target, f |-> LogicFlags(target, f, TRUE)]

\* CPU::OR
OR(t, v, f) ==
    LET target == BitOr(t, v) IN [t |-> target, f |-> LogicFlags(target, f, FALSE)]

\* CPU::XOR(Byte&, Byte)
XOR(t, v, f) ==
    LET target == BitXor(t, v) IN [t |-> target, f |-> LogicFlags(target, f, FALSE)]

\* CPU::XOR(Byte&, Address), which calls OR on the byte it read
XOR_addr(t, v, f) == OR(t, v, f)

\* CPU::CP
CP(t, v, f) == [SUB(t, v, f) EXCEPT !.t = t]

\* CPU::INC(Byte&)
INC(t, f) ==
    LET result == t + 1
        f1 == set_flag(f, FLAG_ZERO, result = 0)
        f2 == set_flag(f1, FLAG_SUB, FALSE)
        f3 == set_flag(f2, FLAG_HALF_CARRY, BitAnd((t % 16) + 1, 16) # 0)
    IN  [t |-> Byte(t + 1), f |-> f3]

\* CPU::DEC(Byte&)
DEC(t, f) ==
    LET result == t - 1
        f1 == set_flag(f, FLAG_ZERO, result = 0)
        f2 == set_flag(f1, FLAG_SUB, TRUE)
        f3 == set_flag(f2, FLAG_HALF_CARRY, (t % 16) - 1 < 0)
    IN  [t |-> Byte(t - 1 + 256), f |-> f3]

\* The immediate operand bytes parse_opcode uses (its locals value and value2)
IMMEDIATE_VALUE == 200

\* The values parse_opcode stores in reg_H and reg_L on entry (addr1, addr2)
ENTRY_H == 0

ENTRY_L == 5

\* address(reg_H, reg_L)
HL(m) == address(m.cpu.reg_H, m.cpu.reg_L)

\* The operand of a register or (HL) form
Operand(m, s) ==
    IF s = 6 THEN MemRead(m.memory, HL(m)) ELSE m.cpu[RegName(s)]

\* Store the result of an ALU operation on reg_A
StoreA(m, r) == [m EXCEPT !.cpu.reg_A = r.t, !.cpu.reg_F = r.f]

\* The ALU operation of group op (0x80 + 8 * op), on a byte read through an
\* address (addr) or passed by value
AluOp(op, t, v, f, addr) ==
    CASE op = 0 -> ADD(t, v, f)
      [] op = 1 -> ADDC(t, v, f)
      [] op = 2 -> SUB(t, v, f)
      [] op = 3 -> SUBC(t, v, f)
      [] op = 4 -> AND(t, v, f)
      [] op = 5 -> IF addr THEN XOR_addr(t, v, f) ELSE XOR(t, v, f)
      [] op = 6 -> OR(t, v, f)
      [] op = 7 -> CP(t, v, f)

\* The opcodes of the switch of CPU::parse_opcode, by group
LD_R_N == {6, 14, 22, 30, 38, 46}

LD_R_R == (64..127) \ {118}

ALU_R == 128..191

ALU_N == {198, 206, 214, 230, 238, 246, 254}

INC_R == {4, 12, 20, 28, 36, 44, 60}

DEC_R == {5, 13, 21, 29, 37, 45, 61}

PUSH_RR == {197, 213, 229, 245}

POP_RR == {193, 209, 225, 241}

LD_RR_NN == {1, 17, 33}

OTHER_OPS == {54, 10, 26, 250, 2, 18, 234, 242, 226, 58, 50, 42, 34, 224, 240,
              49, 249, 248, 8, 52, 53}

DefinedOpcodes ==
    LD_R_N \cup LD_R_R \cup ALU_R \cup ALU_N \cup INC_R \cup DEC_R \cup PUSH_RR
    \cup POP_RR \cup LD_RR_NN \cup OTHER_OPS

\* The high and low register of the pair an opcode of PUSH_RR, POP_RR or
\* LD_RR_NN names in bits 5-4
PairHigh(code) ==
    CASE (code \div 16) % 4 = 0 -> "reg_B" [] (code \div 16) % 4 = 1 -> "reg_D"
      [] (code \div 16) % 4 = 2 -> "reg_H" [] (code \div 16) % 4 = 3 -> "reg_A"

PairLow(code) ==
    CASE (code \div 16) % 4 = 0 -> "reg_C" [] (code \div 16) % 4 = 1 -> "reg_E"
      [] (code \div 16) % 4 = 2 -> "reg_L" [] (code \div 16) % 4 = 3 -> "reg_F"

\* opbytes as the switch of CPU::parse_opcode sets it
OpBytes(code) ==
    IF code \in LD_R_N \cup ALU_N \cup {54, 248} THEN 2
    ELSE IF code \in LD_RR_NN \cup {250, 234, 49, 8} THEN 3
    ELSE 1

\* The cases of the switch of CPU::parse_opcode outside the regular groups
ExecOther(m, code) ==
    LET c == m.cpu
        value == IMMEDIATE_VALUE
        value2 == IMMEDIATE_VALUE
        imm16 == address(value2, value)
    IN  CASE code = 54 -> [m EXCEPT !.memory = MemWrite(@, HL(m), value)]
          [] code = 10 ->
               [m EXCEPT !.cpu.reg_A = MemRead(m.memory, address(c.reg_B, c.reg_C))]
          [] code = 26 ->
               [m EXCEPT !.cpu.reg_A = MemRead(m.memory, address(c.reg_D, c.reg_E))]
          [] code = 250 -> [m EXCEPT !.cpu.reg_A = MemRead(m.memory, imm16)]
          [] code = 2 ->
               [m EXCEPT !.memory = MemWrite(@, address(c.reg_B, c.reg_C), c.reg_A)]
          [] code = 18 ->
               [m EXCEPT !.memory = MemWrite(@, address(c.reg_D, c.reg_E), c.reg_A)]
          [] code = 234 -> [m EXCEPT !.memory = MemWrite(@, imm16, c.reg_A)]
          [] code = 242 ->
               [m EXCEPT !.cpu.reg_A = MemRead(m.memory, 65280 + c.reg_C)]
          [] code = 226 -> [m EXCEPT !.memory = MemWrite(@, 65280 + c.reg_C, c.reg_A)]
          [] code = 58 ->
               [m EXCEPT !.cpu = dec_reg_pair(
                    [c EXCEPT !.reg_A = MemRead(m.memory, HL(m))], "reg_H", "reg_L")]
          [] code = 50 ->
               [m EXCEPT !.memory = MemWrite(@, HL(m), c.reg_A),
                         !.cpu = dec_reg_pair(c, "reg_H", "reg_L")]
          [] code = 42 ->
               [m EXCEPT !.cpu = inc_reg_pair(
                    [c EXCEPT !.reg_A = MemRead(m.memory, HL(m))], "reg_H", "reg_L")]
          [] code = 34 ->
               [m EXCEPT !.memory = MemWrite(@, HL(m), c.reg_A),
                         !.cpu = inc_reg_pair(c, "reg_H", "reg_L")]
          [] code = 224 -> [m EXCEPT !.memory = MemWrite(@, 65280 + value, c.reg_A)]
          [] code = 240 -> [m EXCEPT !.cpu.reg_A = MemRead(m.memory, 65280 + value)]
          [] code = 49 -> [m EXCEPT !.cpu.reg_SP = imm16]
          [] code = 249 -> [m EXCEPT !.cpu.reg_SP = address(c.reg_H, c.reg_L)]
          [] code = 248 ->
               LET sum == Byte_2(c.reg_SP + value)
               IN  [m EXCEPT !.cpu.reg_H = high_reg_pair(sum),
                             !.cpu.reg_L = low_reg_pair(sum),
                             !.cpu.reg_F = set_flag(set_flag(c.reg_F, FLAG_ZERO, FALSE),
                                                    FLAG_SUB, FALSE)]
          [] code = 8 ->
               [m EXCEPT !.memory =
                    MemWrite(MemWrite(@, imm16, low_reg_pair(c.reg_SP)),
                             Byte_2(imm16 + 1), high_reg_pair(c.reg_SP))]
          [] code = 52 ->
               LET r == INC(MemRead(m.memory, HL(m)), c.reg_F)
               IN  [m EXCEPT !.memory = MemWrite(@, HL(m), r.t), !.cpu.reg_F = r.f]
          [] code = 53 ->
               LET r == DEC(MemRead(m.memory, HL(m)), c.reg_F)
               IN  [m EXCEPT !.memory = MemWrite(@, HL(m), r.t), !.cpu.reg_F = r.f]

\* The switch of CPU::parse_opcode
Execute(m, code) ==
    LET c == m.cpu
    IN  CASE code \in LD_R_N ->
               [m EXCEPT !.cpu[RegName((code - 6) \div 8)] = IMMEDIATE_VALUE]
          [] code \in LD_R_R ->
               LET d == (code - 64) \div 8
                   s == code % 8
               IN  IF d = 6
                   THEN [m EXCEPT !.memory = MemWrite(@, HL(m), c[RegName(s)])]
                   ELSE [m EXCEPT !.cpu[RegName(d)] = Operand(m, s)]
          [] code \in ALU_R ->
               StoreA(m, AluOp((code - 128) \div 8, c.reg_A, Operand(m, code % 8),
                               c.reg_F, code % 8 = 6))
          [] code \in ALU_N ->
               StoreA(m, AluOp((code - 198) \div 8, c.reg_A, IMMEDIATE_VALUE,
                               c.reg_F, FALSE))
          [] code \in INC_R ->
               LET r == RegName((code - 4) \div 8)
                   res == INC(c[r], c.reg_F)
               IN  [m EXCEPT !.cpu = [c EXCEPT ![r] = res.t, !.reg_F = res.f]]
          [] code \in DEC_R ->
               LET r == RegName((code - 5) \div 8)
                   res == DEC(c[r], c.reg_F)
               IN  [m EXCEPT !.cpu = [c EXCEPT ![r] = res.t, !.reg_F = res.f]]
          [] code \in PUSH_RR -> PUSH(m, c[PairHigh(code)], c[PairLow(code)])
          [] code \in POP_RR -> POP(m, PairHigh(code), PairLow(code))
          [] code \in LD_RR_NN ->
               [m EXCEPT !.cpu = [c EXCEPT ![PairHigh(code)] = IMMEDIATE_VALUE,
                                           ![PairLow(code)] = IMMEDIATE_VALUE]]
          [] code \in OTHER_OPS -> ExecOther(m, code)
          [] OTHER -> m

\* CPU::parse_opcode
parse_opcode(m, code) ==
    LET entry == [m EXCEPT !.cpu.reg_H = ENTRY_H, !.cpu.reg_L = ENTRY_L]
    IN  [Execute(entry, code) EXCEPT !.ev.opbytes = OpBytes(code)]

---------------------------------------------------------------------------
(* Construction                                                            *)

\* cycles_per_frame of Emulator::run: cpu.CLOCK_SPEED / display.framerate
CYCLES_PER_FRAME == 70224

\* The counters of Emulator when run starts
EmuInit ==
    [divider_counter |-> 0, timer_counter |-> 1024, timer_frequency |-> 0,
     scanline_counter |-> SCANLINE_CYCLES]

\* Observers: they record what has happened and take no part in any operation.
\*   steps  - operations applied so far          writes - memory writes so far
\*   total  - cycles fed to update_timers so far
\*   tac    - TAC at the last timer update
\*   chg    - the window opened by the last change of TAC's frequency bits with
\*            the timer enabled: its period, whether the accumulator was partly
\*            consumed at the change, and the cycles and the TIMA ticks since
ObsInit ==
    [steps |-> 0, writes |-> 0, total |-> 0, tac |-> 0,
     chg |-> [active |-> FALSE, period |-> 0, partial |-> FALSE, since |-> 0, ticks |-> 0]]

\* CPU::init leaves num_cycles and interrupt_master_enable unset: any value
InitCycles == {0, 4, CYCLES_PER_FRAME}

Commit(m) == cpu' = m.cpu /\ memory' = m.memory /\ emu' = m.emu

---------------------------------------------------------------------------
(* Interrupt dispatch: the dispatcher with the operations that feed it     *)

MaxIrqOps == 2

\* LD B,n and PUSH BC give the stack a content
IrqOpcodes == {6, 197}

\* Bytes written to IF (0xFF0F) and IE (0xFFFF)
IrqAddrs == {65295, 65535}

IrqData == {0, 8, 18, 31, 232}

InitIrq ==
    /\ \E ime \in BOOLEAN : cpu = CpuInit(0, ime)
    /\ memory = MemoryInit(EmptyVec)
    /\ emu = EmuInit
    /\ run = [i |-> 0, current_cycle |-> 0]
    /\ last = [op |-> "init"]
    /\ obs = ObsInit

IrqParseOpcode ==
    /\ obs.steps < MaxIrqOps
    /\ \E code \in IrqOpcodes : Commit(parse_opcode(Machine, code))
    /\ last' = [op |-> "parse_opcode"]
    /\ obs' = [obs EXCEPT !.steps = @ + 1]
    /\ UNCHANGED run

IrqMemWrite ==
    /\ \E location \in IrqAddrs, data \in IrqData :
          memory' = MemWrite(memory, location, data)
    /\ last' = [op |-> "write"]
    /\ UNCHANGED <<cpu, emu, run, obs>>

IrqRequest ==
    /\ \E id \in 0..4 : Commit(request_interrupt(Machine, id))
    /\ last' = [op |-> "request_interrupt"]
    /\ UNCHANGED <<run, obs>>

DoInterrupts ==
    /\ LET m == do_interrupts(Machine)
       IN  /\ Commit(m)
           /\ last' = [op |-> "do_interrupts", cpu |-> cpu, memory |-> memory,
                       ev |-> m.ev]
    /\ UNCHANGED <<run, obs>>

NextIrq == IrqParseOpcode \/ IrqMemWrite \/ IrqRequest \/ DoInterrupts

SpecIrq == InitIrq /\ [][NextIrq]_vars

---------------------------------------------------------------------------
(* Timer unit: update_timers with the memory writes that program it        *)

\* Cycles explored while no window is open, and past the period of an open one
MaxIdleCycles == 260

MaxPastPeriod == 40

MaxWriteCycle == 8

MaxTimerWrites == 3

\* Cycle counts of one step
StepCycles == {4, 12, 32}

\* Writes to TAC (0xFF07), TIMA (0xFF05) and TMA (0xFF06)
TimerWrites ==
    {<<65287, 1>>, <<65287, 4>>, <<65287, 5>>, <<65287, 6>>, <<65287, 7>>,
     <<65285, 254>>, <<65286, 128>>}

\* The period the frequency bits of a TAC value select, as documented
PeriodOf(tac) ==
    CASE tac % 4 = 0 -> 1024 [] tac % 4 = 1 -> 16
      [] tac % 4 = 2 -> 64 [] tac % 4 = 3 -> 256

\* The observers after a timer update of cycles that made ticks TIMA ticks
ObserveTimers(cycles, ticks) ==
    LET tac == RegGet(memory, TAC_REG)
        opened == tac % 4 # obs.tac % 4 /\ is_bit_set(tac, 2)
        chg == IF opened
               THEN [active |-> TRUE, period |-> PeriodOf(tac),
                     partial |-> emu.timer_counter \notin {16, 64, 256, 1024},
                     since |-> cycles, ticks |-> ticks]
               ELSE IF obs.chg.active /\ tac = obs.tac
               THEN [obs.chg EXCEPT !.since = @ + cycles, !.ticks = @ + ticks]
               ELSE ObsInit.chg
    IN  [obs EXCEPT !.total = @ + cycles, !.tac = tac, !.chg = chg]

InitTimer ==
    /\ cpu = CpuInit(0, FALSE)
    /\ memory = MemoryInit(EmptyVec)
    /\ emu = EmuInit
    /\ run = [i |-> 0, current_cycle |-> 0]
    /\ last = [op |-> "init"]
    /\ obs = ObsInit

TimerWrite ==
    /\ obs.total <= MaxWriteCycle
    /\ obs.writes < MaxTimerWrites
    /\ \E w \in TimerWrites : memory' = MemWrite(memory, w[1], w[2])
    /\ last' = [op |-> "write"]
    /\ obs' = [obs EXCEPT !.writes = @ + 1]
    /\ UNCHANGED <<cpu, emu, run>>

UpdateTimers ==
    /\ \E cycles \in StepCycles :
          /\ IF obs.chg.active
             THEN obs.chg.since < obs.chg.period + MaxPastPeriod
             ELSE obs.total < MaxIdleCycles
          /\ LET m == update_timers(Machine, cycles)
             IN  /\ Commit(m)
                 /\ last' = [op |-> "update_timers", cycles |-> cycles,
                             memory |-> memory, emu |-> emu, ev |-> m.ev]
                 /\ obs' = ObserveTimers(cycles, m.ev.ticks)
    /\ UNCHANGED run

NextTimer == TimerWrite \/ UpdateTimers

SpecTimer == InitTimer /\ [][NextTimer]_vars

---------------------------------------------------------------------------
(* Claims on the interrupt dispatcher                                      *)

\* IF & IE & 0x1F of a memory
Pending(mem) ==
    BitAnd(BitAnd(RegGet(mem, IF_REG), RegGet(mem, IE_REG)), 31)

\* The lowest bit set in a non-zero mask of five bits
LowestBit(mask) == CHOOSE i \in 0..4 : is_bit_set(mask, i) /\ \A j \in 0..(i - 1) : ~is_bit_set(mask, j)

\* The number of bits set in a mask of five bits
BitCount(mask) == Cardinality({i \in 0..4 : is_bit_set(mask, i)})

\* do_interrupts has just run with IME true and something pending and enabled
Dispatched ==
    /\ last.op = "do_interrupts"
    /\ last.cpu.interrupt_master_enable
    /\ Pending(last.memory) # 0

\* do_interrupts has just run with IME false or nothing pending and enabled
NotDispatched ==
    /\ last.op = "do_interrupts"
    /\ (~last.cpu.interrupt_master_enable \/ Pending(last.memory) = 0)

\* C1: after do_interrupts with IME true and IF & IE & 0x1F non-zero, PC is the
\* vector 0x40 + 8 * i of the lowest bit i set in IF & IE.
C1_LowestPendingVector ==
    Dispatched => cpu.reg_PC = 64 + 8 * LowestBit(Pending(last.memory))

\* C2: one step boundary services exactly one interrupt: only the lowest
\* pending-and-enabled bit of IF is cleared, SP has dropped by 2, the bytes at
\* SP+1 and SP are the high and low byte of the interrupted PC, IME is false.
C2_ServicesExactlyOne ==
    Dispatched =>
        /\ RegGet(memory, IF_REG) =
               clear_bit(RegGet(last.memory, IF_REG), LowestBit(Pending(last.memory)))
        /\ cpu.reg_SP = Byte_2(last.cpu.reg_SP + 65534)
        /\ MemRead(memory, Byte_2(cpu.reg_SP + 1)) = high_byte(last.cpu.reg_PC)
        /\ MemRead(memory, cpu.reg_SP) = low_byte(last.cpu.reg_PC)
        /\ ~cpu.interrupt_master_enable

\* C3: with IME false, or with no bit set in both IF and IE, do_interrupts
\* changes nothing: PC, SP, IME, IF, IE and all memory are as before.
C3_NoDispatchNoChange ==
    NotDispatched => cpu = last.cpu /\ memory = last.memory

\* C3 witness: do_interrupts ran with IME true, IF = 0xE8 and IE = 0x12, bits
\* set in each and none in both
C3_Witness ==
    /\ NotDispatched
    /\ last.cpu.interrupt_master_enable
    /\ RegGet(last.memory, IF_REG) = 232
    /\ RegGet(last.memory, IE_REG) = 18

---------------------------------------------------------------------------
(* Claims on the timer unit                                                *)

\* update_timers has just run
TimersRan == last.op = "update_timers"

\* C7: with no write to DIV, after steps summing to N cycles from a zero
\* accumulator the accumulator is N mod 256 and DIV is floor(N / 256) mod 256.
C7_DividerExact ==
    /\ emu.divider_counter = obs.total % 256
    /\ RegGet(memory, DIV_REG) = (obs.total \div 256) % 256

\* The accumulator the TIMA block of the last update started from: the period
\* just loaded if the frequency bits differed from the latched ones
CounterBefore ==
    IF RegGet(last.memory, TAC_REG) % 4 # last.emu.timer_frequency
    THEN PeriodOf(RegGet(last.memory, TAC_REG))
    ELSE last.emu.timer_counter

\* The last update was a TIMA tick: enabled, and the accumulator ran out
Ticked ==
    /\ is_bit_set(RegGet(last.memory, TAC_REG), 2)
    /\ CounterBefore - last.cycles <= 0

\* What a tick, or its absence, does to TIMA and IF
TickEffect ==
    IF Ticked
    THEN IF RegGet(last.memory, TIMA_REG) = 255
         THEN /\ RegGet(memory, TIMA_REG) = RegGet(last.memory, TMA_REG)
              /\ RegGet(memory, IF_REG) = set_bit(RegGet(last.memory, IF_REG), 2)
              /\ last.ev.requested = <<2>>
         ELSE /\ RegGet(memory, TIMA_REG) = RegGet(last.memory, TIMA_REG) + 1
              /\ RegGet(memory, IF_REG) = RegGet(last.memory, IF_REG)
              /\ last.ev.requested = <<>>
    ELSE /\ RegGet(memory, TIMA_REG) = RegGet(last.memory, TIMA_REG)
         /\ RegGet(memory, IF_REG) = RegGet(last.memory, IF_REG)
         /\ last.ev.requested = <<>>

\* C8 as stated: TIMA changes only on a tick with TAC bit 2 set, a tick reloads
\* TIMA from TMA and requests the timer interrupt at 0xFF and increments TIMA
\* otherwise, and while TAC bit 2 is clear update_timers leaves TIMA, the TIMA
\* accumulator and IF unchanged.
C8_TimaOnlyOnTick ==
    TimersRan =>
        /\ TickEffect
        /\ ~is_bit_set(RegGet(last.memory, TAC_REG), 2) =>
               emu.timer_counter = last.emu.timer_counter

\* C8 amended: as stated, but while TAC bit 2 is clear the TIMA accumulator is
\* unchanged only if TAC's frequency bits equal the latched frequency; if they
\* differ the accumulator is reloaded with the period of the new bits.
C8_TimaOnlyOnTickAmended ==
    TimersRan =>
        /\ TickEffect
        /\ ~is_bit_set(RegGet(last.memory, TAC_REG), 2) =>
               emu.timer_counter = CounterBefore

\* C8 witness: an update with TAC bit 2 clear and changed frequency bits has
\* reloaded the accumulator
C8_Witness ==
    /\ TimersRan
    /\ ~is_bit_set(RegGet(last.memory, TAC_REG), 2)
    /\ RegGet(last.memory, TAC_REG) % 4 # last.emu.timer_frequency
    /\ emu.timer_counter # last.emu.timer_counter

\* C9: after TAC's frequency bits change to select period P with the timer
\* enabled, no TIMA tick occurs before P cycles have passed and the first tick
\* occurs when exactly P cycles have passed, whatever the accumulator held.
C9_FirstTickAfterPeriod ==
    (obs.chg.active /\ obs.chg.since <= obs.chg.period) =>
        obs.chg.ticks = (IF obs.chg.since = obs.chg.period THEN 1 ELSE 0)

\* C9 witness: the frequency bits changed to period 1024 while the accumulator
\* of another period was partly consumed, and 1024 cycles later TIMA ticked
C9_Witness ==
    /\ obs.chg.active
    /\ obs.chg.period = 1024
    /\ obs.chg.partial
    /\ obs.chg.since = 1024
    /\ obs.chg.ticks = 1

\* C10: with the timer enabled at period P and TAC unchanged, k * P cycles
\* from a freshly loaded accumulator give exactly k TIMA ticks, however the
\* cycles are split into steps.
C10_TicksPerPeriod ==
    (obs.chg.active /\ obs.chg.since % obs.chg.period = 0) =>
        obs.chg.ticks = obs.chg.since \div obs.chg.period

---------------------------------------------------------------------------
(* CPU core: parse_opcode applied to any sequence of opcodes from reset    *)

MaxCpuOps == 4

\* 0x00 (not in the switch), LD B,n, LD C,n, INC A, ADD A,B, AND n, PUSH BC,
\* POP BC, POP DE, PUSH AF, POP AF, LD SP,nn
CpuOpcodes == {0, 6, 14, 60, 128, 230, 197, 193, 209, 245, 241, 49}

InitCpu ==
    /\ cpu = CpuInit(0, FALSE)
    /\ memory = MemoryInit(EmptyVec)
    /\ emu = EmuInit
    /\ run = [i |-> 0, current_cycle |-> 0]
    /\ last = [op |-> "init"]
    /\ obs = ObsInit

ParseOpcode ==
    /\ obs.steps < MaxCpuOps
    /\ \E code \in CpuOpcodes :
          LET m == parse_opcode(Machine, code)
          IN  /\ Commit(m)
              /\ last' = [op |-> "parse_opcode", code |-> code, cpu |-> cpu,
                          memory |-> memory, ev |-> m.ev]
    /\ obs' = [obs EXCEPT !.steps = @ + 1]
    /\ UNCHANGED run

NextCpu == ParseOpcode

SpecCpu == InitCpu /\ [][NextCpu]_vars

---------------------------------------------------------------------------
(* The frame loop of Emulator::run                                         *)

\* The argument of run
TotalIterations == 2

MaxRunSteps == 6

\* Opcodes at ROM address 0, where PC points after CPU::init: INC A, LD B,n,
\* LD BC,nn, PUSH BC, POP AF, INC (HL), 0x00 (not in the switch), 0xD3 (no
\* instruction of the CPU, not in the switch)
RomOpcodes == {60, 6, 1, 197, 241, 52, 0, 211}

\* Cartridge images: the opcode at address 0, zero elsewhere
RomImages == {IF op = 0 THEN EmptyVec ELSE (0 :> op) : op \in RomOpcodes}

Init ==
    /\ \E cycles \in InitCycles, ime \in BOOLEAN : cpu = CpuInit(cycles, ime)
    /\ \E rom \in RomImages : memory = MemoryInit(rom)
    /\ emu = EmuInit
    /\ run = [i |-> 0, current_cycle |-> 0]
    /\ last = [op |-> "init"]
    /\ obs = ObsInit

\* One pass of the while loop of Emulator::run
RunStep ==
    /\ run.i < TotalIterations
    /\ run.current_cycle < CYCLES_PER_FRAME
    /\ obs.steps < MaxRunSteps
    /\ LET code == MemRead(memory, cpu.reg_PC)
           m1 == parse_opcode(Machine, code)
           cycles == m1.cpu.num_cycles
           m2 == update_timers(m1, cycles)
           m3 == update_scanline(m2, cycles)
           m4 == do_interrupts(m3)
           m5 == [m4 EXCEPT !.cpu.num_cycles = 0]
       IN  /\ Commit(m5)
           /\ run' = [run EXCEPT !.current_cycle = @ + cycles]
           /\ last' = [op |-> "step", code |-> code, pc |-> cpu.reg_PC,
                       cycles |-> cycles, current_cycle |-> run.current_cycle,
                       ev |-> m5.ev]
    /\ obs' = [obs EXCEPT !.steps = @ + 1]

\* The end of one pass of the for loop of Emulator::run
FrameEnd ==
    /\ run.i < TotalIterations
    /\ run.current_cycle >= CYCLES_PER_FRAME
    /\ run' = [i |-> run.i + 1, current_cycle |-> 0]
    /\ last' = [op |-> "frame"]
    /\ UNCHANGED <<cpu, memory, emu, obs>>

Next == RunStep \/ FrameEnd

Spec == Init /\ [][Next]_vars

---------------------------------------------------------------------------
(* Claims on the CPU core and the frame loop                               *)

\* C4: after every instruction of any opcode sequence from reset, the low
\* four bits of F are zero.
C4_FlagLowNibbleZero == cpu.reg_F % 16 = 0

\* C5: a step that dispatches no interrupt leaves PC at its value before the
\* step plus the byte length of the opcode executed, modulo 2^16.
C5_PcAdvancesByLength ==
    (last.op = "step" /\ last.ev.serviced = <<>>) =>
        cpu.reg_PC = Byte_2(last.pc + last.ev.opbytes)

\* C6: every step reports a positive cycle count and adds it to the frame's
\* current cycle, so the frame loop moves towards its cycle budget.
C6_StepAddsCycles ==
    last.op = "step" =>
        (last.cycles > 0 /\ run.current_cycle = last.current_cycle + last.cycles)

---------------------------------------------------------------------------
(* LCD status unit: update_scanline with the memory writes that program it *)

\* Memory writes are explored while LY is at most this line
MaxWriteLine == 1

\* Cycle counts of one step
LcdStepCycles == {12, 24}

\* Writes to LCDC (0xFF40), STAT (0xFF41) and LYC (0xFF45)
LcdWrites ==
    {<<65344, 17>>, <<65344, 145>>, <<65345, 72>>, <<65345, 48>>, <<65349, 144>>}

\* Observer of the LCD unit: the draw_scanline calls made since LY was last 0
ObsLcdInit == [draws |-> 0]

\* The number of entries of a sequence equal to x
Count(seq, x) == Cardinality({i \in 1..Len(seq) : seq[i] = x})

\* The observer after an update that gave machine m
ObserveLcd(m) ==
    [draws |-> IF RegGet(m.memory, LY_REG) = 0 THEN 0
               ELSE obs.draws + Len(m.ev.draws)]

InitLcd ==
    /\ cpu = CpuInit(0, FALSE)
    /\ memory = MemoryInit(EmptyVec)
    /\ emu = EmuInit
    /\ run = [i |-> 0, current_cycle |-> 0]
    /\ last = [op |-> "init"]
    /\ obs = ObsLcdInit

LcdWrite ==
    /\ RegGet(memory, LY_REG) <= MaxWriteLine
    /\ \E w \in LcdWrites : memory' = MemWrite(memory, w[1], w[2])
    /\ last' = [op |-> "write"]
    /\ UNCHANGED <<cpu, emu, run, obs>>

UpdateScanline ==
    /\ \E cycles \in LcdStepCycles :
          LET m == update_scanline(Machine, cycles)
          IN  /\ Commit(m)
              /\ last' = [op |-> "update_scanline", cycles |-> cycles,
                          enabled |-> is_lcd_enabled(Machine),
                          ly |-> RegGet(memory, LY_REG),
                          stat |-> RegGet(memory, STAT_REG),
                          counter |-> emu.scanline_counter,
                          draws |-> obs.draws, ev |-> m.ev]
              /\ obs' = ObserveLcd(m)
    /\ UNCHANGED run

NextLcd == LcdWrite \/ UpdateScanline

SpecLcd == InitLcd /\ [][NextLcd]_vars

---------------------------------------------------------------------------
(* One frame of LCD updates with the LCD enabled throughout                *)

\* Steps of a frame that take the scanline counter below zero
MaxOvershoots == 2

\* Observers of the frame: the cycles fed to update_scanline, the V-Blank
\* requests made, and the steps that took the scanline counter below zero
ObsSweepInit == [cycles |-> 0, vblanks |-> 0, over |-> 0]

InitSweep ==
    /\ cpu = CpuInit(0, FALSE)
    /\ memory = MemoryInit(EmptyVec)
    /\ emu = EmuInit
    /\ run = [i |-> 0, current_cycle |-> 0]
    /\ last = [op |-> "init"]
    /\ obs = ObsSweepInit

SweepStep ==
    /\ obs.cycles < CYCLES_PER_FRAME
    /\ \E cycles \in LcdStepCycles :
          LET m == update_scanline(Machine, cycles)
              over == IF emu.scanline_counter - cycles < 0 THEN 1 ELSE 0
          IN  /\ obs.over + over <= MaxOvershoots
              /\ Commit(m)
              /\ obs' = [cycles |-> obs.cycles + cycles,
                         vblanks |-> obs.vblanks
                                       + Count(m.ev.requested, INTERRUPT_VBLANK),
                         over |-> obs.over + over]
    /\ last' = [op |-> "update_scanline"]
    /\ UNCHANGED run

NextSweep == SweepStep

SpecSweep == InitSweep /\ [][NextSweep]_vars

\* C14: with the LCD enabled throughout, 70224 cycles after LY = 0 with a full
\* scanline counter LY has swept 0..153 once and is 0 again, and V-Blank has
\* been requested exactly once, however the cycles are split into steps.
C14_OneSweepPerFrame ==
    obs.cycles = CYCLES_PER_FRAME =>
        (RegGet(memory, LY_REG) = 0 /\ obs.vblanks = 1)

---------------------------------------------------------------------------
(* Claims on the LCD status unit                                           *)

\* update_scanline has just run
LcdRan == last.op = "update_scanline"

\* update_scanline has just run and found the LCD enabled
LcdRanEnabled == LcdRan /\ last.enabled

\* C11: after a step that ends with LCDC bit 7 clear, LY is 0, the mode bits
\* of STAT are 01, the scanline counter is 456 and the LCD unit has requested
\* no interrupt in that step.
C11_DisabledLcdIsReset ==
    (LcdRan /\ ~is_bit_set(RegGet(memory, LCDC_REG), 7)) =>
        /\ RegGet(memory, LY_REG) = 0
        /\ RegGet(memory, STAT_REG) % 4 = 1
        /\ emu.scanline_counter = SCANLINE_CYCLES
        /\ last.ev.requested = <<>>

\* C11 witness: an update found the LCD off with LY at 1, STAT bit 6 set and
\* LYC = 0, so that the forced LY equals LYC.
C11_Witness ==
    /\ LcdRan
    /\ ~last.enabled
    /\ last.ly = 1
    /\ is_bit_set(RegGet(memory, STAT_REG), 6)
    /\ RegGet(memory, LYC_REG) = RegGet(memory, LY_REG)

\* C12: LY is in 0..153 at every step boundary.
C12_LyInRange == RegGet(memory, LY_REG) \in 0..153

\* C13: with the LCD enabled, a step requests V-Blank exactly when it takes LY
\* from 143 to 144.
C13_VBlankOnEntering144 ==
    LcdRanEnabled =>
        ((Count(last.ev.requested, INTERRUPT_VBLANK) > 0)
            <=> (last.ly = 143 /\ RegGet(memory, LY_REG) = 144))

\* The STAT bit that enables the interrupt of a mode (none for mode 3)
SourceBit(mode) == CASE mode = 0 -> 3 [] mode = 1 -> 4 [] mode = 2 -> 5

\* C15: with the LCD enabled, the mode logic requests LCDC in a step exactly
\* when the step changes the STAT mode bits to a mode in {0, 1, 2} whose
\* source bit is set in STAT; it never requests twice in a step.
C15_ModeInterruptOnEntry ==
    LcdRanEnabled =>
        LET before == last.stat % 4
            after == RegGet(memory, STAT_REG) % 4
        IN  /\ Count(last.ev.lcdc, "mode") <= 1
            /\ (Count(last.ev.lcdc, "mode") = 1)
                 <=> (/\ after # before
                      /\ after \in {0, 1, 2}
                      /\ is_bit_set(RegGet(memory, STAT_REG), SourceBit(after)))

\* C15 witness: a step entered mode 0 from mode 3 with STAT bit 3 set and the
\* mode logic requested LCDC.
C15_Witness ==
    /\ LcdRanEnabled
    /\ last.stat % 4 = 3
    /\ RegGet(memory, STAT_REG) % 4 = 0
    /\ is_bit_set(RegGet(memory, STAT_REG), 3)
    /\ Count(last.ev.lcdc, "mode") = 1

\* C16: with the LCD enabled, after every step STAT bit 2 is set exactly when
\* LY = LYC for the LY the step ends with, and the coincidence logic requests
\* LCDC only with STAT bit 6 set.
C16_CoincidenceFlag ==
    LcdRanEnabled =>
        /\ is_bit_set(RegGet(memory, STAT_REG), 2)
             <=> (RegGet(memory, LY_REG) = RegGet(memory, LYC_REG))
        /\ Count(last.ev.lcdc, "coincidence") > 0
             => is_bit_set(RegGet(memory, STAT_REG), 6)

\* C17: with the LCD enabled, the draw_scanline calls of a frame are made with
\* LY = 0, 1, ..., 143 in turn: each call finds LY equal to the number of calls
\* made before it in the frame, and below 144.
C17_DrawsVisibleLines ==
    LcdRanEnabled =>
        \A i \in 1..Len(last.ev.draws) :
            /\ last.ev.draws[i] < 144
            /\ last.ev.draws[i] = last.draws + (i - 1)

---------------------------------------------------------------------------
(* Memory map: Memory::write and Memory::read over the regions             *)

MaxMemWrites == 2

\* A 32 KiB cartridge image with a byte at each end, zero elsewhere
MemRom == (0 :> 49) @@ (32767 :> 7)

\* The ends of the regions: ROM 0x0000 0x7FFF, VRAM 0x8000, ERAM 0xA000,
\* WRAM 0xC000 0xCFFF 0xD000 0xDDFF 0xDE00, its shadow 0xE000 0xEFFF 0xF000
\* 0xFDFF, OAM 0xFE00 0xFE9F, unusable 0xFEA0 0xFEFF, ZRAM 0xFF80
MemAddrs ==
    {0, 32767, 32768, 40960, 49152, 53247, 53248, 56831, 56832, 57344, 61439,
     61440, 65023, 65024, 65183, 65184, 65279, 65408}

MemData == {90, 165}

InitMem ==
    /\ cpu = CpuInit(0, FALSE)
    /\ memory = MemoryInit(MemRom)
    /\ emu = EmuInit
    /\ run = [i |-> 0, current_cycle |-> 0]
    /\ last = [op |-> "init"]
    /\ obs = [writes |-> 0]

MemoryWrite ==
    /\ obs.writes < MaxMemWrites
    /\ \E location \in MemAddrs, data \in MemData :
          /\ memory' = MemWrite(memory, location, data)
          /\ last' = [op |-> "write", location |-> location, data |-> data,
                      memory |-> memory]
    /\ obs' = [writes |-> obs.writes + 1]
    /\ UNCHANGED <<cpu, emu, run>>

NextMem == MemoryWrite

SpecMem == InitMem /\ [][NextMem]_vars

\* The shadow addresses among MemAddrs, and the WRAM address of one
EchoAddrs == {e \in MemAddrs : e \in 57344..65023}

WramOf(e) == 49152 + (e % 8192)

\* C18: after any sequence of writes, every address e of 0xE000..0xFDFF reads
\* as its WRAM counterpart 0xC000 + (e & 0x1FFF), and a write to either one is
\* read back at both.
C18_EchoMirrorsWram ==
    /\ \A e \in EchoAddrs : MemRead(memory, e) = MemRead(memory, WramOf(e))
    /\ \A e \in EchoAddrs :
          (last.op = "write" /\ last.location \in {e, WramOf(e)}) =>
              (MemRead(memory, e) = last.data /\ MemRead(memory, WramOf(e)) = last.data)

\* C18 witness: 0xC000 or 0xE000 was written with 90 and read back at 0xE000,
\* then 0xF000 was written with 165 and is read back at 0xD000.
C18_Witness ==
    /\ last.op = "write"
    /\ last.location = 61440
    /\ MemRead(last.memory, 57344) = 90
    /\ MemRead(memory, 53248) = 165

\* Addresses of 0x0000..0x7FFF and of 0xFEA0..0xFEFF
IsRom(location) == location \in 0..32767

IsUnusable(location) == location \in 65184..65279

\* C19: a write to 0x0000..0x7FFF or to 0xFEA0..0xFEFF changes what no address
\* reads, and 0xFEA0..0xFEFF read 0 after any sequence of writes.
C19_RomAndUnusableIgnoreWrites ==
    /\ \A a \in MemAddrs : IsUnusable(a) => MemRead(memory, a) = 0
    /\ (last.op = "write" /\ (IsRom(last.location) \/ IsUnusable(last.location))) =>
          \A a \in MemAddrs : MemRead(memory, a) = MemRead(last.memory, a)

\* C19 witness: after a write to WRAM, 0x7FFF holding 7 was written with 90.
C19_Witness ==
    /\ last.op = "write"
    /\ last.location = 32767
    /\ last.data = 90
    /\ MemRead(last.memory, 49152) = 165
    /\ MemRead(memory, 32767) = 7

---------------------------------------------------------------------------
(* Stack instructions: PUSH and POP through parse_opcode                   *)

MaxStackOps == 3

\* LD B,n, LD C,n, LD H,n, LD SP,nn, PUSH and POP of BC, DE, HL and AF
StackOpcodes == {6, 14, 38, 49, 197, 193, 213, 209, 229, 225, 245, 241}

InitStack ==
    /\ cpu = CpuInit(0, FALSE)
    /\ memory = MemoryInit(EmptyVec)
    /\ emu = EmuInit
    /\ run = [i |-> 0, current_cycle |-> 0]
    /\ last = [op |-> "init", code |-> 0, cpu |-> CpuInit(0, FALSE)]
    /\ obs = [steps |-> 0]

\* One instruction; last keeps its opcode and the registers before it, and the
\* same of the instruction before
StackParseOpcode ==
    /\ obs.steps < MaxStackOps
    /\ \E code \in StackOpcodes :
          LET m == parse_opcode(Machine, code)
          IN  /\ Commit(m)
              /\ last' = [op |-> "parse_opcode", code |-> code, cpu |-> cpu,
                          prev |-> [op |-> last.op, code |-> last.code,
                                    cpu |-> last.cpu]]
    /\ obs' = [steps |-> obs.steps + 1]
    /\ UNCHANGED run

NextStack == StackParseOpcode

SpecStack == InitStack /\ [][NextStack]_vars

\* The last two instructions were PUSH rr then POP rr of the same pair
PushThenPop ==
    /\ last.op = "parse_opcode"
    /\ last.code \in POP_RR
    /\ last.prev.op = "parse_opcode"
    /\ last.prev.code = last.code + 4

\* C20: PUSH rr then POP rr leaves SP as before the PUSH, with the high byte
\* of rr stored at SP-1 and the low byte at SP-2; BC, DE and HL are as before
\* the PUSH; for AF, A is as before and the low nibble of F is zero.
C20_PushPopRestores ==
    PushThenPop =>
        LET before == last.prev.cpu
            hi == PairHigh(last.code)
            lo == PairLow(last.code)
        IN  /\ cpu.reg_SP = before.reg_SP
            /\ MemRead(memory, Byte_2(before.reg_SP + 65535)) = before[hi]
            /\ IF last.code = 241
               THEN cpu.reg_A = before.reg_A /\ cpu.reg_F % 16 = 0
               ELSE /\ cpu[hi] = before[hi]
                    /\ cpu[lo] = before[lo]
                    /\ MemRead(memory, Byte_2(before.reg_SP + 65534)) = before[lo]

---------------------------------------------------------------------------
(* ALU instructions on any register contents: ADD A,B and AND n            *)

MaxAluOps == 1

\* Contents of A and B: 0x00 0x01 0x0F 0x10 0x3A 0x3C 0x80 0xC6 0xC8 0xFF
AluValues == {0, 1, 15, 16, 58, 60, 128, 198, 200, 255}

\* Contents of F before the instruction
AluFlags == {0, 240}

\* The byte after the opcode in the cartridge image
ImmValues == {0, 15, 200}

\* AND n at address 0, where PC points, followed by its immediate byte n
AluRom(n) == IF n = 0 THEN (0 :> 230) ELSE (0 :> 230) @@ (1 :> n)

InitAlu ==
    /\ \E a \in AluValues, b \in AluValues, f \in AluFlags :
          cpu = [CpuInit(0, FALSE) EXCEPT !.reg_A = a, !.reg_B = b, !.reg_F = f]
    /\ \E n \in ImmValues : memory = MemoryInit(AluRom(n))
    /\ emu = EmuInit
    /\ run = [i |-> 0, current_cycle |-> 0]
    /\ last = [op |-> "init"]
    /\ obs = [steps |-> 0]

\* ADD A,B (0x80)
AluAdd ==
    /\ obs.steps < MaxAluOps
    /\ Commit(parse_opcode(Machine, 128))
    /\ last' = [op |-> "parse_opcode", code |-> 128, cpu |-> cpu]
    /\ obs' = [steps |-> obs.steps + 1]
    /\ UNCHANGED run

\* The opcode at PC, AND n (0xE6)
AluAndImmediate ==
    /\ obs.steps < MaxAluOps
    /\ LET code == MemRead(memory, cpu.reg_PC)
       IN  /\ Commit(parse_opcode(Machine, code))
           /\ last' = [op |-> "parse_opcode", code |-> code, cpu |-> cpu]
    /\ obs' = [steps |-> obs.steps + 1]
    /\ UNCHANGED run

NextAlu == AluAdd \/ AluAndImmediate

SpecAlu == InitAlu /\ [][NextAlu]_vars

\* Flag flag of F is set
Flag(f, flag) == BitAnd(f, flag) # 0

\* C21: ADD A,v leaves A = (A+v) & 0xFF, Z = (((A+v) & 0xFF) = 0), N = 0,
\* H = ((A & 0xF) + (v & 0xF) > 0xF) and C = (A+v > 0xFF).
C21_AddFlags ==
    (last.op = "parse_opcode" /\ last.code = 128) =>
        LET a == last.cpu.reg_A
            v == last.cpu.reg_B
        IN  /\ cpu.reg_A = (a + v) % 256
            /\ Flag(cpu.reg_F, FLAG_ZERO) <=> ((a + v) % 256 = 0)
            /\ ~Flag(cpu.reg_F, FLAG_SUB)
            /\ Flag(cpu.reg_F, FLAG_HALF_CARRY) <=> ((a % 16) + (v % 16) > 15)
            /\ Flag(cpu.reg_F, FLAG_CARRY) <=> (a + v > 255)

\* C23: AND n (0xE6) takes its operand n from the byte at PC+1: it leaves
\* A = A & n, Z = (A & n = 0), N = 0, H = 1 and C = 0.
C23_AndImmediateFromMemory ==
    (last.op = "parse_opcode" /\ last.code = 230) =>
        LET a == last.cpu.reg_A
            n == MemRead(memory, Byte_2(last.cpu.reg_PC + 1))
        IN  /\ cpu.reg_A = BitAnd(a, n)
            /\ Flag(cpu.reg_F, FLAG_ZERO) <=> (BitAnd(a, n) = 0)
            /\ ~Flag(cpu.reg_F, FLAG_SUB)
            /\ Flag(cpu.reg_F, FLAG_HALF_CARRY)
            /\ ~Flag(cpu.reg_F, FLAG_CARRY)

---------------------------------------------------------------------------
(* Claims on opcodes that are no instruction                               *)

\* The opcode bytes the CPU defines no instruction for: 0xD3 0xDB 0xDD 0xE3
\* 0xE4 0xEB 0xEC 0xED 0xF4 0xFC 0xFD
UndefinedOpcodes == {211, 219, 221, 227, 228, 235, 236, 237, 244, 252, 253}

\* C22: an opcode byte that is no instruction raises a fault: no pass of the
\* frame loop that fetched one completes as a normal step, after which the
\* loop would go on.
C22_UndefinedOpcodeFaults ==
    ~(last.op = "step" /\ last.code \in UndefinedOpcodes)

---------------------------------------------------------------------------
(* Claim on the scanline counter                                           *)

\* C24: at every step boundary the scanline counter is in 1..456, whatever
\* the cycle counts of the steps and the toggling of LCDC bit 7.
C24_ScanlineCounterPositive == emu.scanline_counter \in 1..456

\* C24 witness: with the LCD enabled a step took the counter from 12 below
\* zero and left it at 456.
C24_Witness ==
    /\ LcdRanEnabled
    /\ last.counter = 12
    /\ last.cycles = 24
    /\ emu.scanline_counter = 456

=============================================================================
